---------------------------- MODULE Spec2Model ----------------------------
(***************************************************************************)
(* A model of main.go: a filter of golangci-lint findings to the lines a   *)
(* version-control diff touched.  Text (subprocess output, hunk headers,   *)
(* file paths) is a sequence of one-character strings, so that the         *)
(* splitting and the two regular expressions are modelled by what they do  *)
(* on characters.  Go's int and int64 are IntBits wide two's-complement    *)
(* integers (64 bits in the program, scaled down here).                    *)
(***************************************************************************)
EXTENDS Integers, Sequences, FiniteSets, TLC

VARIABLES
    pc,                 \* where main is
    failed,             \* the external calls that returned an error so far
    err,                \* main's err variable
    issues,             \* issues.Issues, as loaded by FindJSONIssues
    files,              \* findChanges: files, from listChangedFiles
    fi,                 \* findChanges: position of the loop over files
    diffs,              \* the output of each per-file diff run so far
    fileChanges,        \* findChanges: fileChanges
    changesByFileName,  \* main: the index built by getChangesByFileName
    ii,                 \* main: position of the loop over issues.Issues
    emitted,            \* positions (in issues) of the findings printed so far
    listLines,          \* listing check: the lines the listing command printed
    hdrBlocks,          \* header check: the blocks the hunk header is made of
    hunkRes             \* header check: what findChangesByHunkHeader returned

vars == <<pc, failed, err, issues, files, fi, diffs, fileChanges,
          changesByFileName, ii, emitted, listLines, hdrBlocks, hunkRes>>

-----------------------------------------------------------------------------
(* Bounds *)

IntBits == 5
MaxIssues == 2
MaxLines == 3
MaxBlocks == 2

-----------------------------------------------------------------------------
(* Integers and text *)

NoErr == "nil"

MaxInt == 2 ^ (IntBits - 1) - 1

\* Two's-complement wrap of int64 arithmetic.
WrapInt(x) == ((x + 2 ^ (IntBits - 1)) % (2 ^ IntBits)) - 2 ^ (IntBits - 1)

Digits == {"0", "1", "2", "3", "4", "5", "6", "7", "8", "9"}

DigitVal(c) ==
    CASE c = "0" -> 0 [] c = "1" -> 1 [] c = "2" -> 2 [] c = "3" -> 3
      [] c = "4" -> 4 [] c = "5" -> 5 [] c = "6" -> 6 [] c = "7" -> 7
      [] c = "8" -> 8 [] c = "9" -> 9

RECURSIVE DecVal(_)
DecVal(s) ==
    IF s = <<>> THEN 0
    ELSE DecVal(SubSeq(s, 1, Len(s) - 1)) * 10 + DigitVal(s[Len(s)])

\* strconv.ParseInt(s, 10, 64) of a string of digits: the value, or the
\* largest integer and a range error when the value does not fit.
ParseInt(s) ==
    LET v == DecVal(s)
    IN  IF v > MaxInt THEN [val |-> MaxInt, err |-> "ErrRange"]
        ELSE [val |-> v, err |-> NoErr]

HasPrefix(s, prefix) ==
    /\ Len(s) >= Len(prefix)
    /\ SubSeq(s, 1, Len(prefix)) = prefix

\* strings.Split(s, "\n"): one piece more than there are separators.
RECURSIVE Split(_)
Split(s) ==
    IF \A k \in 1..Len(s) : s[k] # "\n" THEN <<s>>
    ELSE LET i == CHOOSE k \in 1..Len(s) :
                      /\ s[k] = "\n"
                      /\ \A j \in 1..(k - 1) : s[j] # "\n"
         IN  <<SubSeq(s, 1, i - 1)>> \o Split(SubSeq(s, i + 1, Len(s)))

\* The length of the longest run of characters of class starting at s[i].
RECURSIVE Run(_, _, _)
Run(s, i, class) ==
    IF i <= Len(s) /\ s[i] \in class THEN 1 + Run(s, i + 1, class) ELSE 0

-----------------------------------------------------------------------------
(* findChangesByHunkHeader *)

\* regexp `[+](\d+),(\d+)`, FindAllStringSubmatch from position i on: the
\* leftmost matches, none overlapping; each is its two groups.
RECURSIVE PlusMatches(_, _)
PlusMatches(s, i) ==
    IF i > Len(s) THEN <<>>
    ELSE LET r1 == Run(s, i + 1, Digits)
             j  == i + 1 + r1
             r2 == Run(s, j + 1, Digits)
         IN  IF /\ s[i] = "+"
                /\ r1 >= 1
                /\ j <= Len(s)
                /\ s[j] = ","
                /\ r2 >= 1
             THEN <<<<SubSeq(s, i + 1, j - 1), SubSeq(s, j + 1, j + r2)>>>>
                      \o PlusMatches(s, j + r2 + 1)
             ELSE PlusMatches(s, i + 1)

\* Mutants of RangeOf: the end one short, and the length taken for the end.
RangeOf_lengthMinusOne(start, amount) == <<start, WrapInt(start + amount - 1)>>

RangeOf_amountAsEnd(start, amount) == <<start, amount>>

\* A match's range: []int{int(start), int(start + amount)}, the sum in int64.
RangeOf(start, amount) == <<start, WrapInt(start + amount)>>

\* The loop over the matches: the first field that does not parse ends it
\* with (nil, err).
RECURSIVE RangesOfMatches(_, _, _)
RangesOfMatches(matches, k, ranges) ==
    IF k > Len(matches) THEN [ranges |-> ranges, err |-> NoErr]
    ELSE LET start  == ParseInt(matches[k][1])
             amount == ParseInt(matches[k][2])
         IN  IF start.err # NoErr THEN [ranges |-> <<>>, err |-> start.err]
             ELSE IF amount.err # NoErr
                  THEN [ranges |-> <<>>, err |-> amount.err]
             ELSE RangesOfMatches(matches, k + 1,
                      Append(ranges, RangeOf(start.val, amount.val)))

findChangesByHunkHeader(hunkHeader) ==
    RangesOfMatches(PlusMatches(hunkHeader, 1), 1, <<>>)

-----------------------------------------------------------------------------
(* listChangedFiles and findHunkHeadersOfFile, on the subprocess's output *)

CommitPrefix == <<"c", "o", "m", "m", "i", "t", " ">>

\* Mutant of FilesOfLines: a commit line is skipped and the loop goes on.
RECURSIVE FilesOfLines_skipCommit(_, _, _)
FilesOfLines_skipCommit(lines, k, acc) ==
    IF k > Len(lines) THEN acc
    ELSE IF HasPrefix(lines[k], CommitPrefix)
         THEN FilesOfLines_skipCommit(lines, k + 1, acc)
    ELSE FilesOfLines_skipCommit(lines, k + 1, Append(acc, lines[k]))

RECURSIVE FilesOfLines(_, _, _)
FilesOfLines(lines, k, acc) ==
    IF k > Len(lines) THEN acc
    ELSE IF HasPrefix(lines[k], CommitPrefix) THEN acc
    ELSE FilesOfLines(lines, k + 1, Append(acc, lines[k]))

listChangedFiles(output) == FilesOfLines(Split(output), 1, <<>>)

HunkClass == {" ", "-", "+", ","} \cup Digits

\* regexp `(@@[ \-+\d,]+@@)`, FindAllString from position i on.  The class
\* holds no "@", so the run after "@@" is the longest one and must be
\* followed by "@@".
RECURSIVE HeaderMatches(_, _)
HeaderMatches(s, i) ==
    IF i > Len(s) THEN <<>>
    ELSE LET r == Run(s, i + 2, HunkClass)
             e == i + 2 + r
         IN  IF /\ e + 1 <= Len(s)
                /\ s[i] = "@" /\ s[i + 1] = "@"
                /\ r >= 1
                /\ s[e] = "@" /\ s[e + 1] = "@"
             THEN <<SubSeq(s, i, e + 1)>> \o HeaderMatches(s, e + 2)
             ELSE HeaderMatches(s, i + 1)

findHunkHeadersOfFile(output) == HeaderMatches(output, 1)

-----------------------------------------------------------------------------
(* What the subprocesses print: unified diffs and file listings *)

AGo == <<"a", ".", "g", "o">>
BGo == <<"b", ".", "g", "o">>
CommitLine == CommitPrefix \o <<"1">>

\* One block of a hunk header: "+c,d", the single-number form "+c", or the
\* old side "-c,d"; c and d are strings of digits.
Pair(c, d) == [kind |-> "pair", c |-> c, d |-> d]
Single(c) == [kind |-> "single", c |-> c, d |-> <<>>]
Minus(c, d) == [kind |-> "minus", c |-> c, d |-> d]

BlockText(b) ==
    CASE b.kind = "pair" -> <<"+">> \o b.c \o <<",">> \o b.d
      [] b.kind = "single" -> <<"+">> \o b.c
      [] b.kind = "minus" -> <<"-">> \o b.c \o <<",">> \o b.d

RECURSIVE BlocksText(_)
BlocksText(blocks) ==
    IF blocks = <<>> THEN <<>>
    ELSE <<" ">> \o BlockText(Head(blocks)) \o BlocksText(Tail(blocks))

\* "@@ -a,b +c,d @@": the header git prints, from its blocks.
HeaderText(blocks) == <<"@", "@">> \o BlocksText(blocks) \o <<" ", "@", "@">>

\* A diff: a "d" line, then each hunk's header line and one added line.
RECURSIVE HunksText(_)
HunksText(headers) ==
    IF headers = <<>> THEN <<>>
    ELSE HeaderText(Head(headers)) \o <<" ", "f", "\n", "+", "x", "\n">>
             \o HunksText(Tail(headers))

DiffText(headers) == <<"d", "\n">> \o HunksText(headers)

\* The lines of a listing, joined by newlines (a last empty line is the
\* output's final newline).
RECURSIVE JoinLines(_)
JoinLines(lines) ==
    IF Len(lines) <= 1 THEN (IF lines = <<>> THEN <<>> ELSE lines[1])
    ELSE lines[1] \o <<"\n">> \o JoinLines(Tail(lines))

N0 == <<"0">>
N1 == <<"1">>
N2 == <<"2">>
N3 == <<"3">>
N5 == <<"5">>
N9 == <<"9">>
N12 == <<"1", "2">>
N19 == <<"1", "9">>

\* The diffs a per-file run prints in the pipeline: a single-number hunk, one
\* hunk, two hunks whose ranges overlap (the first with two "+" blocks), a
\* deleted file, a sum past the integer width, a field past it.
DiffSingle == << <<Minus(N3, N1), Single(N12)>> >>
DiffOne == << <<Minus(N1, N1), Pair(N1, N1)>> >>
DiffTwo == << <<Minus(N1, N1), Pair(N1, N1), Pair(N2, N0)>>,
              <<Minus(N3, N1), Pair(N3, N0)>> >>
DiffDeleted == << <<Minus(N1, N5), Pair(N0, N0)>> >>
DiffSum == << <<Minus(N1, N1), Pair(N9, N9)>> >>
DiffBig == << <<Minus(N1, N1), Pair(N1, N1)>>,
              <<Minus(N1, N1), Pair(N19, N19)>> >>

Diffs == {DiffSingle, DiffOne, DiffTwo, DiffDeleted, DiffSum, DiffBig}

\* exec.Command(...).Output() of a per-file diff: it fails, or prints a diff.
DiffResults ==
    {[diff |-> <<>>, err |-> "exit"]} \cup {[diff |-> d, err |-> NoErr] : d \in Diffs}

\* The listings of the pipeline: one file, a final newline, two files, a file
\* listed twice, a commit line before the last file.
Listings ==
    {<<AGo>>, <<AGo, <<>>>>, <<AGo, BGo>>, <<AGo, AGo>>, <<AGo, CommitLine, BGo>>}

ListResults ==
    {[lines |-> <<>>, err |-> "exit"]} \cup {[lines |-> l, err |-> NoErr] : l \in Listings}

\* The findings of the lint output: at the boundaries of the range {1,2} and
\* next to it, in a file with changes and in another.
Lines == {1, 2, 3}
Findings == [path : {AGo, BGo}, line : Lines]
IssueLists == UNION {[1..n -> Findings] : n \in 0..MaxIssues}

\* FindJSONIssues: os.Open, io.ReadAll or json.Unmarshal fails, or the
\* issues are returned.
JSONResults ==
    {[issues |-> <<>>, err |-> e] : e \in {"open", "read", "unmarshal"}}
        \cup {[issues |-> l, err |-> NoErr] : l \in IssueLists}

-----------------------------------------------------------------------------
(* findChanges *)

\* The loop over a file's hunk headers: its ranges in order, or the first
\* parse error.
RECURSIVE ChangesOfHeaders(_, _, _)
ChangesOfHeaders(hunkHeaders, k, changes) ==
    IF k > Len(hunkHeaders) THEN [changes |-> changes, err |-> NoErr]
    ELSE LET r == findChangesByHunkHeader(hunkHeaders[k])
         IN  IF r.err # NoErr THEN [changes |-> <<>>, err |-> r.err]
             ELSE ChangesOfHeaders(hunkHeaders, k + 1,
                      changes \o [n \in 1..Len(r.ranges) |->
                                     [Start |-> r.ranges[n][1],
                                      End |-> r.ranges[n][2]]])

\* Mutants of FileBody: a file without ranges is kept, and a diff run that
\* failed is skipped.
FileBody_keepEmpty(file, output, outErr, fileChs) ==
    IF outErr # NoErr THEN [ret |-> TRUE, err |-> outErr, fileChanges |-> <<>>]
    ELSE LET c == ChangesOfHeaders(findHunkHeadersOfFile(output), 1, <<>>)
         IN  IF c.err # NoErr
             THEN [ret |-> TRUE, err |-> c.err, fileChanges |-> <<>>]
             ELSE [ret |-> FALSE, err |-> NoErr,
                   fileChanges |->
                       Append(fileChs, [Path |-> file, Changes |-> c.changes])]

FileBody_skipOnError(file, output, outErr, fileChs) ==
    IF outErr # NoErr
    THEN [ret |-> FALSE, err |-> NoErr, fileChanges |-> fileChs]
    ELSE LET c == ChangesOfHeaders(findHunkHeadersOfFile(output), 1, <<>>)
         IN  IF c.err # NoErr
             THEN [ret |-> TRUE, err |-> c.err, fileChanges |-> <<>>]
             ELSE IF Len(c.changes) = 0
                  THEN [ret |-> FALSE, err |-> NoErr, fileChanges |-> fileChs]
             ELSE [ret |-> FALSE, err |-> NoErr,
                   fileChanges |->
                       Append(fileChs, [Path |-> file, Changes |-> c.changes])]

\* One turn of the loop over files, given what the diff run returned:
\* whether findChanges returns now, its error, and fileChanges.
FileBody(file, output, outErr, fileChs) ==
    IF outErr # NoErr THEN [ret |-> TRUE, err |-> outErr, fileChanges |-> <<>>]
    ELSE LET c == ChangesOfHeaders(findHunkHeadersOfFile(output), 1, <<>>)
         IN  IF c.err # NoErr
             THEN [ret |-> TRUE, err |-> c.err, fileChanges |-> <<>>]
             ELSE IF Len(c.changes) = 0
                  THEN [ret |-> FALSE, err |-> NoErr, fileChanges |-> fileChs]
             ELSE [ret |-> FALSE, err |-> NoErr,
                   fileChanges |->
                       Append(fileChs, [Path |-> file, Changes |-> c.changes])]

-----------------------------------------------------------------------------
(* main *)

RECURSIVE IndexOf(_, _, _)
IndexOf(changes, k, m) ==
    IF k > Len(changes) THEN m
    ELSE IndexOf(changes, k + 1,
             [p \in (DOMAIN m) \cup {changes[k].Path} |->
                 IF p = changes[k].Path THEN changes[k] ELSE m[p]])

\* Mutant of getChangesByFileName: the first FileChange of a path is kept.
RECURSIVE IndexFirst(_, _, _)
IndexFirst(changes, k, m) ==
    IF k > Len(changes) THEN m
    ELSE IndexFirst(changes, k + 1,
             [p \in (DOMAIN m) \cup {changes[k].Path} |->
                 IF p \in DOMAIN m THEN m[p] ELSE changes[k]])

getChangesByFileName_firstWins(changes) == IndexFirst(changes, 1, <<>>)

getChangesByFileName(changes) == IndexOf(changes, 1, <<>>)

\* main discards what Execute returns.
AfterExecute(e) == "findJSON"

\* Mutant of AfterFindJSON: the error is discarded, as Execute's is.
AfterFindJSON_ignored(e) == "findChanges"

AfterFindJSON(e) == IF e # NoErr THEN "panic" ELSE "findChanges"

AfterFindChanges(e) == IF e # NoErr THEN "panic" ELSE "filter"

\* Mutant of InRange: the end is not part of the range.
InRange_exclusiveEnd(change, line) == change.Start <= line /\ line < change.End

\* The test of the inner loop of the filter.
InRange(change, line) == change.Start <= line /\ line <= change.End

\* How often the inner loop calls printIssue for an issue.
Prints(issue, index) ==
    IF issue.path \notin DOMAIN index THEN 0
    ELSE LET changes == index[issue.path].Changes
         IN  Cardinality({k \in 1..Len(changes) : InRange(changes[k], issue.line)})

Init ==
    /\ pc = "execute"
    /\ failed = {}
    /\ err = NoErr
    /\ issues = <<>>
    /\ files = <<>>
    /\ fi = 1
    /\ diffs = <<>>
    /\ fileChanges = <<>>
    /\ changesByFileName = <<>>
    /\ ii = 1
    /\ emitted = <<>>
    /\ listLines = <<>>
    /\ hdrBlocks = <<>>
    /\ hunkRes = [ranges |-> <<>>, err |-> NoErr]

checkVars == <<listLines, hdrBlocks, hunkRes>>

\* lint.Execute(): the lint runner exits with or without an error.
Execute ==
    /\ pc = "execute"
    /\ \E e \in {NoErr, "exit"} :
          /\ failed' = IF e # NoErr THEN failed \cup {"execute"} ELSE failed
          /\ pc' = AfterExecute(e)
    /\ UNCHANGED <<err, issues, files, fi, diffs, fileChanges,
                   changesByFileName, ii, emitted, checkVars>>

\* issues, err := lint.FindJSONIssues()
FindJSONIssues ==
    /\ pc = "findJSON"
    /\ \E r \in JSONResults :
          /\ issues' = r.issues
          /\ err' = r.err
          /\ failed' = IF r.err # NoErr THEN failed \cup {"json"} ELSE failed
          /\ pc' = AfterFindJSON(r.err)
    /\ UNCHANGED <<files, fi, diffs, fileChanges, changesByFileName, ii,
                   emitted, checkVars>>

\* findChanges returns (changes, e) to main, which builds the index when it
\* goes on.
Return(changes, e) ==
    /\ err' = e
    /\ pc' = AfterFindChanges(e)
    /\ fileChanges' = changes
    /\ changesByFileName' =
           IF pc' = "filter" THEN getChangesByFileName(changes)
           ELSE changesByFileName

\* findChanges, up to its loop: listChangedFiles.
ListChangedFiles ==
    /\ pc = "findChanges"
    /\ \E r \in ListResults :
          IF r.err # NoErr
          THEN /\ failed' = failed \cup {"list"}
               /\ Return(<<>>, r.err)
               /\ UNCHANGED <<files, fi>>
          ELSE /\ files' = listChangedFiles(JoinLines(r.lines))
               /\ fi' = 1
               /\ pc' = "files"
               /\ UNCHANGED <<failed, err, fileChanges, changesByFileName>>
    /\ UNCHANGED <<issues, diffs, ii, emitted, checkVars>>

\* One turn of the loop over files: the diff run, its headers, their ranges.
FileStep ==
    /\ pc = "files"
    /\ fi <= Len(files)
    /\ \E r \in DiffResults :
          LET output == DiffText(r.diff)
              b == FileBody(files[fi], output, r.err, fileChanges)
          IN  /\ diffs' = Append(diffs, r)
              /\ failed' =
                    IF r.err # NoErr THEN failed \cup {"diff"}
                    ELSE IF b.err # NoErr THEN failed \cup {"parse"}
                    ELSE failed
              /\ IF b.ret
                 THEN Return(b.fileChanges, b.err) /\ UNCHANGED fi
                 ELSE /\ fileChanges' = b.fileChanges
                      /\ fi' = fi + 1
                      /\ UNCHANGED <<pc, err, changesByFileName>>
    /\ UNCHANGED <<issues, files, ii, emitted, checkVars>>

\* The loop over files is over: findChanges returns fileChanges.
FilesDone ==
    /\ pc = "files"
    /\ fi > Len(files)
    /\ Return(fileChanges, NoErr)
    /\ UNCHANGED <<failed, issues, files, fi, diffs, ii, emitted, checkVars>>

\* One turn of the loop over issues: printIssue for every range that holds
\* the line; a Print that fails ends the process (log.Fatal).
FilterStep ==
    /\ pc = "filter"
    /\ ii <= Len(issues)
    /\ LET n == Prints(issues[ii], changesByFileName)
       IN  \E printed \in 0..n :
              /\ emitted' = emitted \o [k \in 1..printed |-> ii]
              /\ IF printed < n
                 THEN /\ pc' = "fatal"
                      /\ failed' = failed \cup {"print"}
                      /\ UNCHANGED ii
                 ELSE /\ ii' = ii + 1
                      /\ UNCHANGED <<pc, failed>>
    /\ UNCHANGED <<err, issues, files, fi, diffs, fileChanges,
                   changesByFileName, checkVars>>

\* main returns.
FilterDone ==
    /\ pc = "filter"
    /\ ii > Len(issues)
    /\ pc' = "done"
    /\ UNCHANGED <<failed, err, issues, files, fi, diffs, fileChanges,
                   changesByFileName, ii, emitted, checkVars>>

Next ==
    \/ Execute
    \/ FindJSONIssues
    \/ ListChangedFiles
    \/ FileStep
    \/ FilesDone
    \/ FilterStep
    \/ FilterDone

Spec == Init /\ [][Next]_vars

-----------------------------------------------------------------------------
(* listChangedFiles alone, on every listing of up to MaxLines lines *)

LineVals ==
    {AGo, BGo, <<>>, CommitLine, <<"c", "o", "m", "m", "i", "t">>,
     <<"x">> \o CommitLine}

LineLists == UNION {[1..n -> LineVals] : n \in 1..MaxLines}

InitList ==
    /\ pc = "list"
    /\ listLines \in LineLists
    /\ failed = {}
    /\ err = NoErr
    /\ issues = <<>>
    /\ files = <<>>
    /\ fi = 1
    /\ diffs = <<>>
    /\ fileChanges = <<>>
    /\ changesByFileName = <<>>
    /\ ii = 1
    /\ emitted = <<>>
    /\ hdrBlocks = <<>>
    /\ hunkRes = [ranges |-> <<>>, err |-> NoErr]

ListApply ==
    /\ pc = "list"
    /\ files' = listChangedFiles(JoinLines(listLines))
    /\ pc' = "listed"
    /\ UNCHANGED <<failed, err, issues, fi, diffs, fileChanges,
                   changesByFileName, ii, emitted, checkVars>>

SpecList == InitList /\ [][ListApply]_vars

-----------------------------------------------------------------------------
(* findChangesByHunkHeader alone, on every header of up to MaxBlocks blocks *)

N07 == <<"0", "7">>
N15 == <<"1", "5">>
N31 == <<"3", "1">>
N99 == <<"9", "9">>

Numerals == {N0, N1, N07, N15, N31, N99}

Blocks ==
    {Pair(c, d) : c \in Numerals, d \in Numerals}
        \cup {Single(N12), Minus(N3, N1)}

BlockLists == UNION {[1..n -> Blocks] : n \in 0..MaxBlocks}

InitHunk ==
    /\ pc = "hunk"
    /\ hdrBlocks \in BlockLists
    /\ hunkRes = [ranges |-> <<>>, err |-> NoErr]
    /\ failed = {}
    /\ err = NoErr
    /\ issues = <<>>
    /\ files = <<>>
    /\ fi = 1
    /\ diffs = <<>>
    /\ fileChanges = <<>>
    /\ changesByFileName = <<>>
    /\ ii = 1
    /\ emitted = <<>>
    /\ listLines = <<>>

HunkApply ==
    /\ pc = "hunk"
    /\ hunkRes' = findChangesByHunkHeader(HeaderText(hdrBlocks))
    /\ pc' = "parsed"
    /\ UNCHANGED <<failed, err, issues, files, fi, diffs, fileChanges,
                   changesByFileName, ii, emitted, listLines, hdrBlocks>>

SpecHunk == InitHunk /\ [][HunkApply]_vars

-----------------------------------------------------------------------------
(* Properties *)

\* The filter as a function of the findings and the index: what the loop over
\* issues prints when no Print fails.
RECURSIVE Select(_, _)
Select(fs, index) ==
    IF fs = <<>> THEN <<>>
    ELSE [k \in 1..Prints(Head(fs), index) |-> Head(fs)]
             \o Select(Tail(fs), index)

\* The findings printed so far.
Output == [k \in 1..Len(emitted) |-> issues[emitted[k]]]

\* findChanges returned without an error and main built the index.
Built == pc \in {"filter", "done", "fatal"}

\* The errors that end findChanges or FindJSONIssues.
LoadErrors == {"json", "list", "diff", "parse"}

\* Some range of the index, under the finding's path, holds its line.
Covered(f) ==
    /\ f.path \in DOMAIN changesByFileName
    /\ \E k \in 1..Len(changesByFileName[f.path].Changes) :
          LET c == changesByFileName[f.path].Changes[k]
          IN  c.Start <= f.line /\ f.line <= c.End

\* C1: a finding is emitted by the filter loop if and only if its path is a
\* key of the index and one of the path's ranges {s,e} has s <= line <= e:
\* every printed finding is covered, and when the loop has ended every covered
\* finding was printed.
C1_EmittedIffCovered ==
    /\ \A k \in 1..Len(emitted) : Covered(issues[emitted[k]])
    /\ pc = "done" =>
          \A i \in 1..Len(issues) :
              Covered(issues[i]) => \E k \in 1..Len(emitted) : emitted[k] = i

\* C1's case: with the one range {1,2}, the finding at line 2 (= e) was
\* printed and the one at line 3 (= e+1) was not.
C1_Witness ==
    /\ pc = "done"
    /\ issues = <<[path |-> AGo, line |-> 2], [path |-> AGo, line |-> 3]>>
    /\ DOMAIN changesByFileName = {AGo}
    /\ changesByFileName[AGo].Changes = <<[Start |-> 1, End |-> 2]>>
    /\ emitted = <<1>>

\* C2: the filter is a stable filter: when the loop has ended the printed
\* findings are a subsequence of the input (each input finding at most once,
\* in input order), and filtering them again with the same index returns
\* them unchanged.
C2_StableFilter ==
    pc = "done" =>
        /\ \A k \in 1..(Len(emitted) - 1) : emitted[k] < emitted[k + 1]
        /\ Select(Output, changesByFileName) = Output

\* The value of a string of digits, and what a "+c,d" block stands for.
PairsOf(blocks) == SelectSeq(blocks, LAMBDA b : b.kind = "pair")
Fits(b) == DecVal(b.c) <= MaxInt /\ DecVal(b.d) <= MaxInt
Sum(b) == DecVal(b.c) + DecVal(b.d)

\* C3 as stated: findChangesByHunkHeader returns no error and exactly one
\* range {c, c+d} per "+c,d" block of the header, in order.
C3_OneRangePerBlock ==
    pc = "parsed" =>
        LET pairs == PairsOf(hdrBlocks)
        IN  /\ hunkRes.err = NoErr
            /\ Len(hunkRes.ranges) = Len(pairs)
            /\ \A k \in 1..Len(pairs) :
                  hunkRes.ranges[k] = <<DecVal(pairs[k].c), Sum(pairs[k])>>

\* C3, amended: when every field of every "+c,d" block fits the integer
\* width, findChangesByHunkHeader returns no error and one range per block, in
\* order, with start = c and end = c+d, the sum wrapped around when it does
\* not fit; when a field does not fit, it returns an error and no range.
C3_OneRangePerBlockThatFits ==
    pc = "parsed" =>
        LET pairs == PairsOf(hdrBlocks)
        IN  IF \A k \in 1..Len(pairs) : Fits(pairs[k])
            THEN /\ hunkRes.err = NoErr
                 /\ Len(hunkRes.ranges) = Len(pairs)
                 /\ \A k \in 1..Len(pairs) :
                       hunkRes.ranges[k] =
                           <<DecVal(pairs[k].c),
                             IF Sum(pairs[k]) <= MaxInt THEN Sum(pairs[k])
                             ELSE Sum(pairs[k]) - 2 ^ IntBits>>
            ELSE hunkRes.err # NoErr /\ hunkRes.ranges = <<>>

\* C3's case: a header with two "+c,d" blocks ("+07,1" and "+1,0") gave two
\* ranges, in the order of the blocks.
C3_Witness ==
    /\ pc = "parsed"
    /\ hdrBlocks = <<Pair(N07, N1), Pair(N1, N0)>>
    /\ hunkRes = [ranges |-> <<<<7, 8>>, <<1, 1>>>>, err |-> NoErr]

\* C4: when the listing ends with a newline (a last empty path), findChanges
\* returns no FileChange whose Path is empty, whatever the diff run for the
\* empty path prints.
C4_EmptyPathDropped ==
    (Built /\ files # <<>> /\ files[Len(files)] = <<>>) =>
        \A k \in 1..Len(fileChanges) : fileChanges[k].Path # <<>>

\* C5 as stated: an error of Execute, of FindJSONIssues or of findChanges ends
\* the run with that error.
C5_EveryErrorFatal ==
    failed \cap ({"execute"} \cup LoadErrors) # {} => pc = "panic"

\* C5, amended: an error of FindJSONIssues or of findChanges (its listing, a
\* per-file diff, a hunk header's parse) ends the run in a panic with that
\* error, nothing printed and no step after it; an error of Execute alone is
\* discarded and ends nothing.
C5_LoadErrorsFatal ==
    /\ failed \cap LoadErrors # {} =>
          /\ pc = "panic"
          /\ err # NoErr
          /\ emitted = <<>>
          /\ ~ ENABLED Next
    /\ failed = {"execute"} => pc # "panic"

\* C5's case: the second file's diff run failed after the first one's
\* ranges were read, and the run ended.
C5_Witness ==
    /\ pc = "panic"
    /\ "diff" \in failed
    /\ Len(diffs) = 2
    /\ diffs[1].diff = DiffOne

\* C6 as stated: a run that ended in a fatal error has printed no finding.
C6_NothingEmittedOnError ==
    pc \in {"panic", "fatal"} => emitted = <<>>

\* C6, amended: a finding is printed only after the findings were loaded and
\* every listed file's diff was read without an error, and a run that ended
\* in the panic of a load or change-set error has printed nothing (a Print
\* that fails can come after findings were printed).
C6_EmittedOnlyAfterBuild ==
    /\ emitted # <<>> =>
          /\ Built
          /\ failed \cap LoadErrors = {}
          /\ err = NoErr
          /\ Len(diffs) = Len(files)
    /\ pc = "panic" => emitted = <<>>

\* C6's case: Print failed after a finding was printed.
C6_Witness ==
    /\ pc = "fatal"
    /\ "print" \in failed
    /\ emitted # <<>>

\* The ranges a diff's headers stand for, in order.
RECURSIVE RangesOfBlocks(_)
RangesOfBlocks(blocks) ==
    IF blocks = <<>> THEN <<>>
    ELSE (IF Head(blocks).kind = "pair"
          THEN <<[Start |-> DecVal(Head(blocks).c),
                  End |-> IF Sum(Head(blocks)) <= MaxInt THEN Sum(Head(blocks))
                          ELSE Sum(Head(blocks)) - 2 ^ IntBits]>>
          ELSE <<>>) \o RangesOfBlocks(Tail(blocks))

RECURSIVE RangesOfDiff(_)
RangesOfDiff(headers) ==
    IF headers = <<>> THEN <<>>
    ELSE RangesOfBlocks(Head(headers)) \o RangesOfDiff(Tail(headers))

\* Some "+c,d" block read so far starts at s and has a sum past the width.
SumPastWidth(s) ==
    \E i \in 1..Len(diffs) :
        \E h \in 1..Len(diffs[i].diff) :
            \E b \in 1..Len(diffs[i].diff[h]) :
                LET blk == diffs[i].diff[h][b]
                IN  /\ blk.kind = "pair"
                    /\ DecVal(blk.c) = s
                    /\ Sum(blk) > MaxInt

\* C7 as stated: every stored range has Start >= 1 and End >= Start.
C7_StartPositive ==
    \A k \in 1..Len(fileChanges) :
        \A n \in 1..Len(fileChanges[k].Changes) :
            LET r == fileChanges[k].Changes[n]
            IN  r.Start >= 1 /\ r.End >= r.Start

\* C7, amended: every stored range has Start >= 0, and End >= Start unless
\* the sum c+d of its block is past the integer width (End is then negative).
C7_StartNonNegative ==
    \A k \in 1..Len(fileChanges) :
        \A n \in 1..Len(fileChanges[k].Changes) :
            LET r == fileChanges[k].Changes[n]
            IN  /\ r.Start >= 0
                /\ \/ r.End >= r.Start
                   \/ r.End < 0 /\ SumPastWidth(r.Start)

\* C7's case: the header of a deleted file, "+0,0", is stored as {0,0}.
C7_Witness ==
    /\ Built
    /\ \E k \in 1..Len(fileChanges) :
          fileChanges[k].Changes = <<[Start |-> 0, End |-> 0]>>

\* C8: while findChanges has met no error, fileChanges is, in listing order,
\* one FileChange per file read so far whose diff holds a "+c,d" block, with
\* that file's ranges in header order and then block order; none is empty.
C8_SubsequenceOfFiles ==
    failed \cap LoadErrors = {} =>
        LET kept == {i \in 1..Len(diffs) : RangesOfDiff(diffs[i].diff) # <<>>}
        IN  /\ \A k \in 1..Len(fileChanges) : fileChanges[k].Changes # <<>>
            /\ \E f \in [1..Len(fileChanges) -> 1..Len(diffs)] :
                  /\ {f[k] : k \in 1..Len(fileChanges)} = kept
                  /\ \A k \in 1..(Len(fileChanges) - 1) : f[k] < f[k + 1]
                  /\ \A k \in 1..Len(fileChanges) :
                        fileChanges[k] =
                            [Path |-> files[f[k]],
                             Changes |-> RangesOfDiff(diffs[f[k]].diff)]

\* C8's case: of two files the first was dropped (a single-number hunk) and
\* the second kept with the three ranges of its two headers.
C8_Witness ==
    /\ Built
    /\ files = <<AGo, BGo>>
    /\ diffs[1].diff = DiffSingle
    /\ fileChanges =
          <<[Path |-> BGo,
             Changes |-> <<[Start |-> 1, End |-> 2], [Start |-> 2, End |-> 2],
                           [Start |-> 3, End |-> 3]>>]>>

IsCommit(line) ==
    /\ Len(line) >= 7
    /\ \A j \in 1..7 : line[j] = CommitPrefix[j]

\* C9: listChangedFiles returns the lines before the first line that begins
\* with "commit ", in order (all lines when there is none).
C9_LinesBeforeCommit ==
    pc = "listed" =>
        LET commits == {k \in 1..Len(listLines) : IsCommit(listLines[k])}
            n == IF commits = {} THEN Len(listLines)
                 ELSE (CHOOSE k \in commits : \A j \in commits : k <= j) - 1
        IN  files = SubSeq(listLines, 1, n)

\* C9's case: a commit line between two paths; only the first path is kept.
C9_Witness ==
    /\ pc = "listed"
    /\ listLines = <<AGo, CommitLine, BGo>>
    /\ files = <<AGo>>

\* C10: once built, the index has one key per path of the FileChanges, maps a
\* path to the last FileChange with that path, and is not changed while the
\* findings are filtered.
C10_LastWriteWins ==
    /\ [](Built =>
            /\ DOMAIN changesByFileName =
                   {fileChanges[k].Path : k \in 1..Len(fileChanges)}
            /\ \A k \in 1..Len(fileChanges) :
                  (\A j \in (k + 1)..Len(fileChanges) :
                       fileChanges[j].Path # fileChanges[k].Path)
                      => changesByFileName[fileChanges[k].Path] = fileChanges[k])
    /\ [][Built => changesByFileName' = changesByFileName]_vars

\* C10's case: a path listed twice with different ranges; filtering is over.
C10_Witness ==
    /\ pc = "done"
    /\ Len(fileChanges) = 2
    /\ fileChanges[1].Path = fileChanges[2].Path
    /\ fileChanges[1].Changes # fileChanges[2].Changes
    /\ emitted # <<>>

=============================================================================
